---- MODULE Spec2Model ----
(***************************************************************************)
(* A model of the buffering / flush engine of the logdna client            *)
(* (logdna.go): producers calling Log, the channel q, the worker goroutine *)
(* started by NewClient, the payload buffer, and Flush / Close called from *)
(* other goroutines.  The HTTP endpoint is the environment: every POST     *)
(* either succeeds or fails, and the requests it received are recorded.    *)
(*                                                                         *)
(* payload is shared by the worker and by every caller of Flush / Close    *)
(* with no lock, so each read and each write of it is a step of its own:   *)
(* the interleavings of those steps are the outcomes of the race.          *)
(***************************************************************************)
EXTENDS Integers, Sequences, FiniteSets, TLC

\* ------------------------------------------------------------------ bounds

\* Config.FlushLimit is drawn from 0 .. MaxFlushLimit (0 selects the default).
MaxFlushLimit == 2
\* Producers make at most MaxLogs calls of Log in total.
MaxLogs == 2
\* At most MaxFails POSTs fail (a failing endpoint is retried without end).
MaxFails == 1
\* Each outside goroutine calls Flush / Close at most MaxCalls times.
MaxCalls == 1
\* The producer of a burst makes at most MaxBurst calls of Log: one more
\* than the channel of a client with FlushLimit 1 holds.
MaxBurst == 11
\* At most MaxBurstFails POSTs fail during a burst.
MaxBurstFails == 2

\* ------------------------------------------------------- program constants

DefaultFlushLimit == 5000

\* Config.LogFile, fixed at construction.
LogFile == "app.log"

\* ----------------------------------------------------------------- inputs

\* The goroutines of the program besides the worker.
Producers == {"p1", "p2"}
Callers == {"c1"}
Worker == "worker"
Flushers == Callers \cup {Worker}

\* The (t, msg) pairs handed to Log; t is the instant in nanoseconds since
\* the epoch (time.Time.UnixNano), one before the epoch and one after it.
Inputs == {[t |-> -1500000, s |-> "a"], [t |-> 2500000, s |-> "b"]}
BurstProducer == "p1"
\* What the k-th Log call of a burst is handed: the clock, which advances
\* by a millisecond per call, and one message.
BurstInput(k) == [t |-> k * 1000000, s |-> "b"]

None == [t |-> 0, s |-> "<none>"]

\* ------------------------------------------------------------------ state

VARIABLES
    cfgFlushLimit, \* cfg.FlushLimit as handed to NewClient
    flushLimit,   \* client.config.FlushLimit, after NewClient's defaulting
    q,            \* client.q: the entries in the channel, head first
    payload,      \* client.payload.Lines
    pc,           \* where the worker and each caller of Flush / Close stand
    e,            \* the worker's received entry (e := <-client.q)
    lines,        \* the worker's read of c.payload.Lines inside append
    body,         \* jsonPayload of each goroutine inside Flush
    ret,          \* what the last Flush / Close of each caller returned
    op,           \* the method each caller is in or was last in
    ncalls,       \* how many Flush / Close calls each caller has made
    pending,      \* the entry each producer inside Log is about to send
    nlogs,        \* how many times producers have called Log
    posts,        \* the requests the endpoint received, in order
    enq,          \* every entry sent on q, in the order the sends completed
    app           \* every entry the worker appended to payload, in order

vars == <<cfgFlushLimit, flushLimit, q, payload, pc, e, lines, body, ret, op, ncalls,
          pending, nlogs, posts, enq, app>>

\* ------------------------------------------------------------ pure helpers

\* A division that rounds toward minus infinity.
FloorDiv(a, b) == a \div b

\* Go's integer division truncates toward zero (b > 0).
GoDiv(a, b) == IF a >= 0 THEN a \div b ELSE -((-a) \div b)

\* logLineJSON built by log().
LogLine(t, msg) ==
    [timestamp |-> GoDiv(t, 1000000), line |-> msg, file |-> LogFile]

\* cfg.FlushLimit after NewClient.
EffectiveFlushLimit(cfg) == IF cfg = 0 THEN DefaultFlushLimit ELSE cfg

\* A channel with room for one more batch than intended.
QueueCapWide == 11 * flushLimit

\* Capacity of client.q.
QueueCap == 10 * flushLimit

\* Client.Size.
Size == Len(payload)

IsFailed(p) == ~p.ok
NumFailed == Len(SelectSeq(posts, IsFailed))

\* -------------------------------------------------------------------- Init

Init ==
    /\ cfgFlushLimit \in 0 .. MaxFlushLimit
    /\ flushLimit = EffectiveFlushLimit(cfgFlushLimit)
    /\ q = <<>>
    /\ payload = <<>>
    /\ pc = [x \in Flushers |-> IF x = Worker THEN "recv" ELSE "idle"]
    /\ e = None
    /\ lines = <<>>
    /\ body = [x \in Flushers |-> <<>>]
    /\ ret = [c \in Callers |-> "none"]
    /\ op = [c \in Callers |-> "none"]
    /\ ncalls = [c \in Callers |-> 0]
    /\ pending = [p \in Producers |-> None]
    /\ nlogs = 0
    /\ posts = <<>>
    /\ enq = <<>>
    /\ app = <<>>

\* --------------------------------------------------------------------- Log

\* A send that puts the entry at the head of the channel.
SendFront(ent) ==
    /\ Len(q) < QueueCap
    /\ q' = <<ent>> \o q
    /\ enq' = Append(enq, ent)

\* c.q <- &entry{t, msg}: blocks while the channel is full.
Send(ent) ==
    /\ Len(q) < QueueCap
    /\ q' = Append(q, ent)
    /\ enq' = Append(enq, ent)

\* A producer enters Log(t, msg).
LogCall(p, t, msg) ==
    /\ pending[p] = None
    /\ pending' = [pending EXCEPT ![p] = [t |-> t, s |-> msg]]
    /\ nlogs' = nlogs + 1
    /\ UNCHANGED <<cfgFlushLimit, flushLimit, q, payload, pc, e, lines, body, ret, op,
                   ncalls, posts, enq, app>>

\* A Log that gives up instead of waiting when the channel is full.
LogSendLossy(p) ==
    /\ pending[p] # None
    /\ IF Len(q) < QueueCap THEN Send(pending[p]) ELSE UNCHANGED <<q, enq>>
    /\ pending' = [pending EXCEPT ![p] = None]
    /\ UNCHANGED <<cfgFlushLimit, flushLimit, payload, pc, e, lines, body, ret, op, ncalls,
                   nlogs, posts, app>>

\* The producer's send completes and Log returns.
LogSend(p) ==
    /\ pending[p] # None
    /\ Send(pending[p])
    /\ pending' = [pending EXCEPT ![p] = None]
    /\ UNCHANGED <<cfgFlushLimit, flushLimit, payload, pc, e, lines, body, ret, op, ncalls,
                   nlogs, posts, app>>

\* ------------------------------------------------------------------- Flush

\* Close(): return c.Flush()
CloseResultNil(r) == "nil"
CloseResult(r) == r

\* Flush returns r to the goroutine x that called it: the worker resubmits
\* on an error and goes back to the channel otherwise; Close hands the
\* result of its Flush to its caller unchanged.  jsonPayload goes out of
\* scope.
FlushReturn(x, r) ==
    /\ body' = [body EXCEPT ![x] = <<>>]
    /\ IF x = Worker
       THEN /\ pc' = [pc EXCEPT ![x] =
                         IF r = "err" THEN "resubmit" ELSE "recv"]
            /\ e' = IF r = "err" THEN e ELSE None
            /\ UNCHANGED ret
       ELSE /\ pc' = [pc EXCEPT ![x] = "idle"]
            /\ ret' = [ret EXCEPT ![x] =
                           IF op[x] = "Close" THEN CloseResult(r) ELSE r]
            /\ UNCHANGED e

\* A Flush that does not look at the size first.
FlushSizeNoCheck(x) ==
    /\ pc[x] = "size"
    /\ pc' = [pc EXCEPT ![x] = "marshal"]
    /\ UNCHANGED <<cfgFlushLimit, flushLimit, q, payload, e, lines, body, ret, op, ncalls,
                   pending, nlogs, posts, enq, app>>

\* if c.Size() == 0 { return nil }
FlushSize(x) ==
    /\ pc[x] = "size"
    /\ IF Size = 0
       THEN FlushReturn(x, "nil")
       ELSE /\ pc' = [pc EXCEPT ![x] = "marshal"]
            /\ UNCHANGED <<e, ret, body>>
    /\ UNCHANGED <<cfgFlushLimit, flushLimit, q, payload, lines, op, ncalls, pending, nlogs,
                   posts, enq, app>>

\* jsonPayload, err := json.Marshal(c.payload): strings and integers always
\* encode, so err is nil.
FlushMarshal(x) ==
    /\ pc[x] = "marshal"
    /\ body' = [body EXCEPT ![x] = payload]
    /\ pc' = [pc EXCEPT ![x] = "post"]
    /\ UNCHANGED <<cfgFlushLimit, flushLimit, q, payload, e, lines, ret, op, ncalls,
                   pending, nlogs, posts, enq, app>>

\* A Flush that empties the buffer whether or not the POST went through.
FlushPostClearsOnFail(x, ok) ==
    /\ pc[x] = "post"
    /\ posts' = Append(posts, [by |-> x,
                               call |-> IF x = Worker THEN 0 ELSE ncalls[x],
                               body |-> body[x], ok |-> ok])
    /\ IF ok
       THEN /\ pc' = [pc EXCEPT ![x] = "clear"]
            /\ UNCHANGED <<e, ret, body, payload>>
       ELSE /\ FlushReturn(x, "err")
            /\ payload' = <<>>
    /\ UNCHANGED <<cfgFlushLimit, flushLimit, q, lines, op, ncalls, pending, nlogs,
                   enq, app>>

\* A Flush that, called from outside, encodes and posts again after a
\* failure instead of returning the error.
FlushPostRetries(x, ok) ==
    /\ pc[x] = "post"
    /\ posts' = Append(posts, [by |-> x,
                               call |-> IF x = Worker THEN 0 ELSE ncalls[x],
                               body |-> body[x], ok |-> ok])
    /\ IF ok
       THEN /\ pc' = [pc EXCEPT ![x] = "clear"]
            /\ UNCHANGED <<e, ret, body>>
       ELSE IF x = Worker
            THEN FlushReturn(x, "err")
            ELSE /\ pc' = [pc EXCEPT ![x] = "marshal"]
                 /\ UNCHANGED <<e, ret, body>>
    /\ UNCHANGED <<cfgFlushLimit, flushLimit, q, payload, lines, op, ncalls,
                   pending, nlogs, enq, app>>

\* http.Post(...): the endpoint answers (ok) or the transport fails.
FlushPost(x, ok) ==
    /\ pc[x] = "post"
    /\ posts' = Append(posts, [by |-> x,
                               call |-> IF x = Worker THEN 0 ELSE ncalls[x],
                               body |-> body[x], ok |-> ok])
    /\ IF ok
       THEN /\ pc' = [pc EXCEPT ![x] = "clear"]
            /\ UNCHANGED <<e, ret, body>>
       ELSE FlushReturn(x, "err")
    /\ UNCHANGED <<cfgFlushLimit, flushLimit, q, payload, lines, op, ncalls, pending, nlogs,
                   enq, app>>

\* A Flush that returns nil after a successful POST and keeps the buffer.
FlushClearKeeps(x) ==
    /\ pc[x] = "clear"
    /\ FlushReturn(x, "nil")
    /\ UNCHANGED <<cfgFlushLimit, flushLimit, q, payload, lines, op, ncalls, pending, nlogs,
                   posts, enq, app>>

\* c.payload = payloadJSON{}; return nil
FlushClear(x) ==
    /\ pc[x] = "clear"
    /\ payload' = <<>>
    /\ FlushReturn(x, "nil")
    /\ UNCHANGED <<cfgFlushLimit, flushLimit, q, lines, op, ncalls, pending, nlogs, posts,
                   enq, app>>

\* An outside goroutine calls Flush().
CallFlush(c) ==
    /\ pc[c] = "idle"
    /\ ncalls[c] < MaxCalls
    /\ pc' = [pc EXCEPT ![c] = "size"]
    /\ op' = [op EXCEPT ![c] = "Flush"]
    /\ ret' = [ret EXCEPT ![c] = "none"]
    /\ ncalls' = [ncalls EXCEPT ![c] = @ + 1]
    /\ UNCHANGED <<cfgFlushLimit, flushLimit, q, payload, e, lines, body, pending, nlogs, posts,
                   enq, app>>

\* A Close that also throws away what is still in the channel.
CallCloseDrains(c) ==
    /\ pc[c] = "idle"
    /\ ncalls[c] < MaxCalls
    /\ pc' = [pc EXCEPT ![c] = "size"]
    /\ op' = [op EXCEPT ![c] = "Close"]
    /\ ret' = [ret EXCEPT ![c] = "none"]
    /\ ncalls' = [ncalls EXCEPT ![c] = @ + 1]
    /\ q' = <<>>
    /\ UNCHANGED <<cfgFlushLimit, flushLimit, payload, e, lines, body,
                   pending, nlogs, posts, enq, app>>

\* An outside goroutine calls Close(): return c.Flush().
CallClose(c) ==
    /\ pc[c] = "idle"
    /\ ncalls[c] < MaxCalls
    /\ pc' = [pc EXCEPT ![c] = "size"]
    /\ op' = [op EXCEPT ![c] = "Close"]
    /\ ret' = [ret EXCEPT ![c] = "none"]
    /\ ncalls' = [ncalls EXCEPT ![c] = @ + 1]
    /\ UNCHANGED <<cfgFlushLimit, flushLimit, q, payload, e, lines, body, pending, nlogs, posts,
                   enq, app>>

\* ------------------------------------------------------------------ worker

\* A receive that takes the newest entry instead of the oldest.
WorkerRecvLast ==
    /\ pc[Worker] = "recv"
    /\ q # <<>>
    /\ e' = q[Len(q)]
    /\ q' = SubSeq(q, 1, Len(q) - 1)
    /\ pc' = [pc EXCEPT ![Worker] = "read"]
    /\ UNCHANGED <<cfgFlushLimit, flushLimit, payload, lines, body, ret, op, ncalls,
                   pending, nlogs, posts, enq, app>>

\* case e := <-client.q
WorkerRecv ==
    /\ pc[Worker] = "recv"
    /\ q # <<>>
    /\ e' = Head(q)
    /\ q' = Tail(q)
    /\ pc' = [pc EXCEPT ![Worker] = "read"]
    /\ UNCHANGED <<cfgFlushLimit, flushLimit, payload, lines, body, ret, op, ncalls,
                   pending, nlogs, posts, enq, app>>

\* log(): append reads c.payload.Lines ...
LogRead ==
    /\ pc[Worker] = "read"
    /\ lines' = payload
    /\ pc' = [pc EXCEPT ![Worker] = "write"]
    /\ UNCHANGED <<cfgFlushLimit, flushLimit, q, payload, e, body, ret, op, ncalls, pending, nlogs,
                   posts, enq, app>>

\* ... and c.payload.Lines is assigned the extended slice.
LogWrite ==
    /\ pc[Worker] = "write"
    /\ payload' = Append(lines, LogLine(e.t, e.s))
    /\ app' = Append(app, e)
    /\ lines' = <<>>
    /\ pc' = [pc EXCEPT ![Worker] = "check"]
    /\ UNCHANGED <<cfgFlushLimit, flushLimit, q, e, body, ret, op, ncalls, pending, nlogs, posts,
                   enq>>

\* A threshold test with > in place of >=.
LogCheckStrict ==
    /\ pc[Worker] = "check"
    /\ IF Size > flushLimit
       THEN /\ pc' = [pc EXCEPT ![Worker] = "size"]
            /\ UNCHANGED e
       ELSE /\ pc' = [pc EXCEPT ![Worker] = "recv"]
            /\ e' = None
    /\ UNCHANGED <<cfgFlushLimit, flushLimit, q, payload, lines, body, ret, op, ncalls,
                   pending, nlogs, posts, enq, app>>

\* A threshold test that fires one line early.
LogCheckEarly ==
    /\ pc[Worker] = "check"
    /\ IF Size >= flushLimit - 1
       THEN /\ pc' = [pc EXCEPT ![Worker] = "size"]
            /\ UNCHANGED e
       ELSE /\ pc' = [pc EXCEPT ![Worker] = "recv"]
            /\ e' = None
    /\ UNCHANGED <<cfgFlushLimit, flushLimit, q, payload, lines, body, ret, op, ncalls,
                   pending, nlogs, posts, enq, app>>

\* if c.Size() >= c.config.FlushLimit { return c.Flush() }; return nil
LogCheck ==
    /\ pc[Worker] = "check"
    /\ IF Size >= flushLimit
       THEN /\ pc' = [pc EXCEPT ![Worker] = "size"]
            /\ UNCHANGED e
       ELSE /\ pc' = [pc EXCEPT ![Worker] = "recv"]
            /\ e' = None
    /\ UNCHANGED <<cfgFlushLimit, flushLimit, q, payload, lines, body, ret, op, ncalls,
                   pending, nlogs, posts, enq, app>>

\* A worker that prints the error and drops the entry.
WorkerDrop ==
    /\ pc[Worker] = "resubmit"
    /\ e' = None
    /\ pc' = [pc EXCEPT ![Worker] = "recv"]
    /\ UNCHANGED <<cfgFlushLimit, flushLimit, q, payload, lines, body, ret, op, ncalls,
                   pending, nlogs, posts, enq, app>>

\* err != nil: fmt.Println(err); client.Log(e.t, e.s)
WorkerResubmit ==
    /\ pc[Worker] = "resubmit"
    /\ Send(e)
    /\ e' = None
    /\ pc' = [pc EXCEPT ![Worker] = "recv"]
    /\ UNCHANGED <<cfgFlushLimit, flushLimit, payload, lines, body, ret, op, ncalls,
                   pending, nlogs, posts, app>>

\* -------------------------------------------------------------------- Next

Next ==
    \/ /\ nlogs < MaxLogs
       /\ \E p \in Producers, in \in Inputs : LogCall(p, in.t, in.s)
    \/ \E p \in Producers : LogSend(p)
    \/ WorkerRecv
    \/ LogRead
    \/ LogWrite
    \/ LogCheck
    \/ WorkerResubmit
    \/ \E x \in Flushers : FlushSize(x)
    \/ \E x \in Flushers : FlushMarshal(x)
    \/ \E x \in Flushers, ok \in BOOLEAN :
          (ok \/ NumFailed < MaxFails) /\ FlushPost(x, ok)
    \/ \E x \in Flushers : FlushClear(x)
    \/ \E c \in Callers : CallFlush(c)
    \/ \E c \in Callers : CallClose(c)

Spec == Init /\ [][Next]_vars

\* A burst: a client built with FlushLimit 1 (a channel of 10) or with the
\* default, one producer that logs faster than the worker delivers, nobody
\* calling Flush or Close.
InitBurst ==
    /\ Init
    /\ cfgFlushLimit \in {0, 1}

NextBurst ==
    \/ /\ nlogs < MaxBurst
       /\ LogCall(BurstProducer, BurstInput(nlogs + 1).t,
                  BurstInput(nlogs + 1).s)
    \/ LogSend(BurstProducer)
    \/ WorkerRecv
    \/ LogRead
    \/ LogWrite
    \/ LogCheck
    \/ WorkerResubmit
    \/ FlushSize(Worker)
    \/ FlushMarshal(Worker)
    \/ \E ok \in BOOLEAN :
          (ok \/ NumFailed < MaxBurstFails) /\ FlushPost(Worker, ok)
    \/ FlushClear(Worker)

SpecBurst == InitBurst /\ [][NextBurst]_vars

\* ------------------------------------------------- vocabulary of the claims

Last(s) == s[Len(s)]
IsPrefix(a, b) == Len(a) <= Len(b) /\ SubSeq(b, 1, Len(a)) = a
IsSuffix(a, b) ==
    Len(a) <= Len(b) /\ SubSeq(b, Len(b) - Len(a) + 1, Len(b)) = a

\* The buffered lines that a sequence of entries turns into.
Lines(es) == [i \in 1 .. Len(es) |-> LogLine(es[i].t, es[i].s)]

\* The requests goroutine c issued during its current (or last) call.
PostsOf(c) == SelectSeq(posts, LAMBDA r : r.by = c /\ r.call = ncalls[c])

\* Goroutine x takes a step.
Step(x) == pc'[x] # pc[x]
\* This step is x's POST, and the transport fails / the endpoint answers.
PostFails(x) == pc[x] = "post" /\ Step(x) /\ ~Last(posts').ok
PostSucceeds(x) == pc[x] = "post" /\ Step(x) /\ Last(posts').ok

NoExplicitCall == \A c \in Callers : ncalls[c] = 0
WorkerDelivered == \E i \in 1 .. Len(posts) : posts[i].by = Worker /\ posts[i].ok
\* Nothing is in flight: every Log has returned, the channel is drained and
\* the worker is back at the receive.
Quiescent ==
    /\ q = <<>>
    /\ pc[Worker] = "recv"
    /\ \A p \in Producers : pending[p] = None

\* ----------------------------------------------------------------- claims

\* C1: an explicit Flush whose transmission fails returns the error and
\* does not touch the buffer: the failing step leaves payload as it was,
\* and (unless a threshold flush of the worker delivered meanwhile) the
\* buffer after the return still starts with every line of the body that
\* failed to go out, in the same order.
C1_FailedFlushKeepsBuffer ==
    /\ [](\A c \in Callers :
            (pc[c] = "idle" /\ ret[c] = "err") =>
                /\ Len(PostsOf(c)) = 1
                /\ ~PostsOf(c)[1].ok
                /\ (~WorkerDelivered => IsPrefix(PostsOf(c)[1].body, payload)))
    /\ [][\A c \in Callers :
            PostFails(c) =>
                /\ ret'[c] = "err"
                /\ pc'[c] = "idle"
                /\ payload' = payload
                /\ q' = q]_vars

\* C1 happens: with the large default limit two lines are buffered, Flush
\* fails, and both lines are still there.
C1_Witness ==
    /\ flushLimit = DefaultFlushLimit
    /\ pc["c1"] = "idle" /\ op["c1"] = "Flush" /\ ret["c1"] = "err"
    /\ Size = MaxLogs
    /\ payload = Lines(app)
    /\ Last(posts).body = payload

\* C2: with no explicit call and no failure, the worker never goes back to
\* the receive with flushLimit lines buffered: reaching the limit triggers
\* one POST of exactly flushLimit lines and the buffer is emptied, so the
\* bodies sent followed by the buffer are the lines appended, in order.
RECURSIVE Bodies(_)
Bodies(ps) == IF ps = <<>> THEN <<>> ELSE Head(ps).body \o Bodies(Tail(ps))

C2_ThresholdFlush ==
    (NoExplicitCall /\ NumFailed = 0) =>
        /\ \A i \in 1 .. Len(posts) :
              posts[i].by = Worker /\ Len(posts[i].body) = flushLimit
        /\ pc[Worker] = "recv" =>
              /\ Size < flushLimit
              /\ Bodies(posts) \o payload = Lines(app)
              /\ Len(app) = flushLimit =>
                    Size = 0 /\ Len(posts) = 1 /\ posts[1].body = Lines(app)

\* C2 happens: flushLimit = 2, a then b were appended, one POST carried
\* both in that order and the buffer is empty again.
C2_Witness ==
    /\ flushLimit = 2 /\ NoExplicitCall /\ NumFailed = 0
    /\ pc[Worker] = "recv"
    /\ Len(app) = 2 /\ app[1].s = "a" /\ app[2].s = "b"
    /\ Size = 0
    /\ Len(posts) = 1 /\ posts[1].body = Lines(app)

\* C3: while fewer than flushLimit Log calls have been made and nobody has
\* called Flush or Close, no request was ever issued, and once everything is
\* consumed Size() is the number of Log calls.
C3_BelowLimitNoTransmission ==
    (nlogs < flushLimit /\ NoExplicitCall) =>
        /\ posts = <<>>
        /\ Quiescent => Size = nlogs

C3_Witness ==
    /\ nlogs = MaxLogs /\ nlogs < flushLimit /\ NoExplicitCall
    /\ Quiescent
    /\ Size = nlogs

\* C4: a Flush on a non-empty buffer that succeeds encodes the buffer as it
\* stands (the lines in append order), issues one POST with that body, then
\* empties the buffer and returns nil.
C4_SuccessfulFlush ==
    /\ [](\A c \in Callers :
            /\ Len(PostsOf(c)) <= 1
            /\ pc[c] = "clear" =>
                  /\ Len(PostsOf(c)) = 1
                  /\ PostsOf(c)[1].ok
                  /\ PostsOf(c)[1].body = body[c])
    /\ [][\A c \in Callers :
            /\ (pc[c] = "marshal" /\ Step(c)) => body'[c] = payload
            /\ PostSucceeds(c) =>
                  /\ Last(posts').body = body[c]
                  /\ payload' = payload
            /\ (pc[c] = "clear" /\ Step(c)) =>
                  /\ payload' = <<>>
                  /\ ret'[c] = "nil"
                  /\ pc'[c] = "idle"]_vars

C4_Witness ==
    /\ pc["c1"] = "idle" /\ op["c1"] = "Flush" /\ ret["c1"] = "nil"
    /\ Len(PostsOf("c1")) = 1
    /\ PostsOf("c1")[1].ok
    /\ PostsOf("c1")[1].body = Lines(app)
    /\ Len(app) = MaxLogs
    /\ Size = 0

\* C5: Flush on an empty buffer returns nil at once: no request, and the
\* buffer and the channel are as they were.
C5_EmptyFlushNoOp ==
    [][\A c \in Callers :
        (pc[c] = "size" /\ Size = 0 /\ Step(c)) =>
            /\ ret'[c] = "nil"
            /\ pc'[c] = "idle"
            /\ posts' = posts
            /\ payload' = payload
            /\ q' = q]_vars

C5_Witness ==
    /\ pc["c1"] = "idle" /\ ret["c1"] = "nil" /\ ncalls["c1"] = 1
    /\ PostsOf("c1") = <<>>
    /\ payload = <<>>

\* C6: Close is one Flush and hands back what that Flush returned: it
\* enters Flush, issues at most one request, returns nil only if no request
\* of the call failed, and on a failing endpoint returns the error with the
\* buffer left as it was.
C6_CloseIsOneFlush ==
    /\ [](\A c \in Callers :
            op[c] = "Close" =>
                /\ Len(PostsOf(c)) <= 1
                /\ (pc[c] = "idle" /\ ret[c] = "nil") =>
                      \A i \in 1 .. Len(PostsOf(c)) : PostsOf(c)[i].ok
                /\ (pc[c] = "idle" /\ ret[c] = "err") =>
                      /\ Len(PostsOf(c)) = 1
                      /\ ~PostsOf(c)[1].ok
                      /\ ~WorkerDelivered =>
                            IsPrefix(PostsOf(c)[1].body, payload))
    /\ [][\A c \in Callers :
            /\ (pc[c] = "idle" /\ Step(c) /\ op'[c] = "Close") =>
                  pc'[c] = "size"
            /\ (op[c] = "Close" /\ pc[c] = "size" /\ Size > 0 /\ Step(c)) =>
                  pc'[c] = "marshal"
            /\ (op[c] = "Close" /\ PostFails(c)) =>
                  ret'[c] = "err" /\ payload' = payload
            /\ (op[c] = "Close" /\ pc[c] = "clear" /\ Step(c)) =>
                  ret'[c] = "nil" /\ Len(PostsOf(c)) = 1]_vars

\* C6 happens: one line buffered, Close, the endpoint answers: exactly one
\* request, nil returned.
C6_Witness ==
    /\ pc["c1"] = "idle" /\ op["c1"] = "Close" /\ ret["c1"] = "nil"
    /\ Len(app) = 1
    /\ Len(posts) = 1 /\ posts[1].by = "c1" /\ posts[1].ok
    /\ posts[1].body = Lines(app)
    /\ Size = 0

\* C6 happens, failing endpoint: Close returns the error, the line stays.
C6_WitnessFail ==
    /\ pc["c1"] = "idle" /\ op["c1"] = "Close" /\ ret["c1"] = "err"
    /\ Len(app) = 1
    /\ payload = Lines(app)

\* C7: the channel is FIFO and the worker appends in the order it receives:
\* the entries sent, in the order their sends completed, are the entries
\* appended, then the one in the worker's hand, then the channel's content;
\* and the buffer is always a tail of the lines appended, in that order.
InHand == IF pc[Worker] \in {"read", "write"} THEN <<e>> ELSE <<>>

C7_AppendOrderIsSendOrder ==
    /\ enq = app \o InHand \o q
    /\ IsSuffix(payload, Lines(app))

\* C7 happens: two different entries were both in the channel and are now
\* in the buffer, in the order sent.
C7_Witness ==
    /\ Len(enq) = 2 /\ enq[1] # enq[2]
    /\ app = enq
    /\ payload = Lines(enq)

\* C8: Log has no failing outcome: a producer inside Log can complete
\* exactly when the channel is below its capacity, and completing puts its
\* entry, and only that, at the tail of the channel; the buffer is not
\* touched.
C8_LogEnqueuesOrBlocks ==
    /\ [](/\ Len(q) <= QueueCap
          /\ \A p \in Producers :
                pending[p] # None =>
                    (ENABLED LogSend(p) <=> Len(q) < QueueCap))
    /\ [][\A p \in Producers :
            (pending[p] # None /\ pending'[p] = None) =>
                /\ q' = Append(q, pending[p])
                /\ payload' = payload
                /\ app' = app /\ posts' = posts]_vars

\* C8 happens: ten Log calls have put their entries in the channel, the
\* newest at the tail, and an eleventh is blocked on the full channel.
C8_Witness ==
    /\ Len(q) = QueueCap
    /\ pending["p1"] = BurstInput(MaxBurst)
    /\ Last(q) = BurstInput(MaxBurst - 1)
    /\ ~ENABLED LogSend("p1")

\* C9: when the worker's threshold flush fails, the buffer is kept, the
\* worker sends the very entry it holds to the channel again and goes back
\* to the receive; no producer or caller sees the error.
C9_FailedThresholdFlushResubmits ==
    /\ [](pc[Worker] = "resubmit" =>
            /\ e # None /\ app # <<>> /\ Last(app) = e
            /\ posts # <<>>)
    /\ [][/\ PostFails(Worker) =>
               /\ pc'[Worker] = "resubmit"
               /\ payload' = payload
               /\ e' = e
               /\ ret' = ret /\ pending' = pending
          /\ (pc[Worker] = "resubmit" /\ Step(Worker)) =>
               /\ q' = Append(q, e)
               /\ payload' = payload
               /\ pc'[Worker] = "recv"
               /\ ret' = ret /\ pending' = pending]_vars

\* C9 happens: the threshold flush failed, the entry is back in the channel
\* and the buffer still holds its line.
C9_Witness ==
    /\ flushLimit = 1
    /\ pc[Worker] = "recv"
    /\ Len(posts) = 1 /\ posts[1].by = Worker /\ ~posts[1].ok
    /\ Len(app) = 1 /\ q = app
    /\ payload = Lines(app)

\* C10: buffer mutations are serialized: the worker never appends while
\* another goroutine's Flush has encoded the buffer and is about to clear
\* it, and no two goroutines are inside Flush (past its size test) at once.
InFlush(x) == pc[x] \in {"marshal", "post", "clear"}

C10_BufferMutationsSerialized ==
    [][/\ (pc[Worker] = "write" /\ Step(Worker)) =>
              \A c \in Callers : pc[c] # "clear"
       /\ \A x, y \in Flushers : (x # y /\ InFlush(x)') => ~InFlush(y)']_vars

\* C11: whenever the worker is back at the receive, the buffer holds at
\* most flushLimit lines, whatever the flushes did.
C11_BufferWithinLimitAtReceive ==
    pc[Worker] = "recv" => Size <= flushLimit

\* C12: the line built from an entry (t, msg) carries t's nanoseconds
\* divided by 1,000,000 with the fraction dropped (toward zero, also for a
\* negative count), msg as its line and the configured label as its file.
\* k is t / 1,000,000 truncated: k * 1,000,000 is within a millisecond of t,
\* on the side of zero.
IsTruncatedMillis(k, t) ==
    LET r == t - k * 1000000
    IN  /\ -1000000 < r /\ r < 1000000
        /\ t >= 0 => r >= 0
        /\ t <= 0 => r <= 0

BuiltFrom(l, ent) ==
    /\ IsTruncatedMillis(l.timestamp, ent.t)
    /\ l.line = ent.s
    /\ l.file = LogFile

C13_WorkerNeverBlockedOnSend ==
    pc[Worker] = "resubmit" => Len(q) < QueueCap

\* C14: a failed explicit Flush or Close makes one attempt and gives up:
\* the call that saw a POST fail has issued that one request only and has
\* returned the error, and no step of an outside caller adds an entry to the
\* channel or takes one from it.
HasFailedPost(c) == \E i \in 1 .. Len(PostsOf(c)) : ~PostsOf(c)[i].ok

C14_FailedExplicitFlushNotRetried ==
    /\ [](\A c \in Callers :
            HasFailedPost(c) =>
                /\ Len(PostsOf(c)) = 1
                /\ pc[c] = "idle"
                /\ ret[c] = "err")
    /\ [][\A c \in Callers :
            Step(c) => (q' = q /\ enq' = enq /\ e' = e)]_vars

\* C14 happens: one line buffered and one entry still in the channel, the
\* explicit call fails: one request, the error returned, the channel as it
\* was.
C14_Witness ==
    /\ pc["c1"] = "idle" /\ ret["c1"] = "err"
    /\ Len(posts) = 1 /\ posts[1].by = "c1" /\ ~posts[1].ok
    /\ Len(app) = 1 /\ Len(q) = 1
    /\ payload = Lines(app)

\* C15: Close neither drains nor stops anything: no step of Close touches
\* the channel or the worker, and once Close has returned a producer inside
\* Log can still send whenever the channel has room and the worker can still
\* take its next step, unless it waits on an empty channel (or on a full one
\* to resubmit).
WorkerNext ==
    \/ WorkerRecv
    \/ LogRead
    \/ LogWrite
    \/ LogCheck
    \/ WorkerResubmit
    \/ FlushSize(Worker)
    \/ FlushMarshal(Worker)
    \/ \E ok \in BOOLEAN : FlushPost(Worker, ok)
    \/ FlushClear(Worker)

Closed(c) == op[c] = "Close" /\ pc[c] = "idle"

C15_CloseLeavesWorkerAndQueue ==
    /\ [](\A c \in Callers :
            Closed(c) =>
                /\ \A p \in Producers :
                      (pending[p] # None /\ Len(q) < QueueCap) =>
                          ENABLED LogSend(p)
                /\ ( /\ pc[Worker] = "recv" => q # <<>>
                     /\ pc[Worker] = "resubmit" => Len(q) < QueueCap )
                      => ENABLED WorkerNext)
    /\ [][\A c \in Callers :
            (Step(c) /\ op'[c] = "Close") =>
                /\ q' = q /\ enq' = enq
                /\ pc'[Worker] = pc[Worker] /\ e' = e /\ lines' = lines]_vars

\* C15 happens: Close delivered the first line and returned; the second
\* entry was not part of it and the worker appended it afterwards.
C15_Witness ==
    /\ Closed("c1") /\ ret["c1"] = "nil"
    /\ Len(app) = 2
    /\ Len(posts) = 1 /\ posts[1].by = "c1" /\ posts[1].ok
    /\ posts[1].body = Lines(<<app[1]>>)
    /\ payload = Lines(<<app[2]>>)

\* C16: the flush limit in force is 5000 when the configured one is zero and
\* the configured one otherwise, there is one worker, and the channel never
\* holds more than ten times the flush limit.
C16_LimitDefaultAndQueueBound ==
    /\ cfgFlushLimit = 0 => flushLimit = 5000
    /\ cfgFlushLimit # 0 => flushLimit = cfgFlushLimit
    /\ Len(q) >= 0 /\ Len(q) <= 10 * flushLimit
    /\ Cardinality(DOMAIN pc \ Callers) = 1

\* C16 happens: with FlushLimit 1 the channel is full at ten entries.
C16_Witness ==
    /\ cfgFlushLimit = 1 /\ flushLimit = 1
    /\ Len(q) = 10

\* C16 happens: FlushLimit 0 gives 5000, and a channel that takes the whole
\* burst.
C16_WitnessDefault ==
    /\ cfgFlushLimit = 0 /\ flushLimit = 5000
    /\ Len(q) = MaxBurst

\* The transmissions the endpoint acknowledged, and the lines they carried.
Delivered == Bodies(SelectSeq(posts, LAMBDA r : r.ok))
Count(v, s) == Cardinality({i \in 1 .. Len(s) : s[i] = v})
Occurs(v, s) == Count(v, s) > 0
\* The threshold flushes of the worker that failed.
FailedThreshold ==
    Len(SelectSeq(posts, LAMBDA r : r.by = Worker /\ ~r.ok))

\* C17: every line the worker has appended is still in the buffer or was in
\* the body of a successful transmission, whatever explicit Flush or Close
\* runs alongside the worker.
C17_NoLineLost ==
    \A i \in 1 .. Len(app) :
        LET l == LogLine(app[i].t, app[i].s)
        IN  Occurs(l, payload) \/ Occurs(l, Delivered)

\* C18: when no transmission has failed, the successful transmissions carry
\* each line at most as many times as Log was called with it.
C18_NoDuplicateDelivery ==
    NumFailed = 0 =>
        \A ent \in Inputs :
            Count(LogLine(ent.t, ent.s), Delivered) <= Count(ent, enq)

\* C19: the worker appends an entry once per Log call and once more per
\* failed threshold flush, and, outside the instant between a successful
\* POST and its clear, the lines buffered plus the lines delivered never
\* exceed the Log calls plus the failed threshold flushes.
C19_CopiesBoundedByRetries ==
    /\ Len(app) <= nlogs + FailedThreshold
    /\ (\A x \in Flushers : pc[x] # "clear") =>
          Size + Len(Delivered) <= nlogs + FailedThreshold

\* The burst under the scheduler's guarantees: the worker goroutine keeps
\* running while it has a step to take, and a producer parked on the send
\* completes it once the channel has room.  Nothing obliges a producer to
\* call Log again, and the endpoint fails at most MaxBurstFails requests.
BurstWorkerNext ==
    \/ WorkerRecv
    \/ LogRead
    \/ LogWrite
    \/ LogCheck
    \/ WorkerResubmit
    \/ FlushSize(Worker)
    \/ FlushMarshal(Worker)
    \/ \E ok \in BOOLEAN :
          (ok \/ NumFailed < MaxBurstFails) /\ FlushPost(Worker, ok)
    \/ FlushClear(Worker)

SpecBurstFair ==
    /\ SpecBurst
    /\ WF_vars(BurstWorkerNext)
    /\ WF_vars(LogSend(BurstProducer))

\* C20: with a fair worker and fair producers and finitely many failed
\* transmissions, every run settles: every Log has returned, every entry
\* sent on the channel has been appended, the channel is drained, and the
\* worker waits for the next entry with fewer than flushLimit lines.
C20_RecoveryIsLive ==
    <>[](/\ Quiescent
         /\ Len(app) = Len(enq)
         /\ Size < flushLimit)

====
